---- MODULE Spec2Model ----
(***************************************************************************)
(* Model of "TOOLS API CALLS/1-basic.py": a script that reads the          *)
(* credential OPENAI_API_KEY from the environment, builds an OpenAI        *)
(* client, makes one blocking chat.completions.create call with a fixed    *)
(* two-message conversation, and prints the content of the first choice.   *)
(*                                                                         *)
(* Text (message content, standard output) is a sequence of one-character  *)
(* strings.  A Python Optional value is a record [isNone, val].            *)
(* The hosted service and the network are the environment: every answer    *)
(* they can give to a request is a nondeterministic choice.                *)
(***************************************************************************)
EXTENDS Naturals, Sequences, FiniteSets

VARIABLES
    environ,      \* os.environ["OPENAI_API_KEY"]: Optional string
    pc,           \* "start", "pending" (create call blocked), "success", "failure"
    client,       \* <<>> before line 7 ran, else <<[api_key |-> k]>>
    calls,        \* number of client.chat.completions.create calls made
    requests,     \* HTTP requests sent to the chat-completion endpoint, in order
    responses,    \* what the service/network answered to each request, in order
    stdout,       \* characters written to standard output
    error,        \* name of the unhandled exception, "" when none was raised
    exit_status   \* <<>> while the process runs, <<n>> once it exited with n

vars == <<environ, pc, client, calls, requests, responses, stdout, error, exit_status>>

----------------------------------------------------------------------------
(* Bounds of the model *)

\* longest message content the service returns
MaxContentLen == 1
\* most choices in one completion
MaxChoices == 2

Alphabet == {"a", "\n"}

----------------------------------------------------------------------------
(* Python values *)

None == [isNone |-> TRUE, val |-> <<>>]
Some(v) == [isNone |-> FALSE, val |-> v]
NoKey == [isNone |-> TRUE, val |-> ""]

Texts == UNION {[1..n -> Alphabet] : n \in 0..MaxContentLen}
\* ChatCompletionMessage.content is Optional[str]
Contents == {None} \cup {Some(t) : t \in Texts}

\* the credential values tried; the service accepts only ValidKeys
Keys == {"", "sk-invalid", "sk-valid"}
ValidKeys == {"sk-valid"}
Environs == {NoKey} \cup {Some(k) : k \in Keys}

Front(s) == SubSeq(s, 1, Len(s) - 1)
Last(s) == s[Len(s)]

----------------------------------------------------------------------------
(* Line 7: client = OpenAI(api_key=os.getenv("OPENAI_API_KEY")) *)

\* os.getenv(name): the variable's value, None when it is not set
os_getenv(env) == IF env.isNone THEN NoKey ELSE Some(env.val)

\* a constructor that accepts a missing key and leaves the failure to the call
OpenAI_unchecked(api_key) ==
    [raised |-> "", client |-> <<[api_key |-> api_key.val]>>]

\* OpenAI(api_key=...): a None argument falls back to the environment
\* variable; with no key at all the constructor raises OpenAIError.  An
\* empty string is a key like any other: it is not validated locally.
OpenAI(api_key) ==
    LET key == IF api_key.isNone THEN os_getenv(environ) ELSE api_key
    IN  IF key.isNone
        THEN [raised |-> "OpenAIError", client |-> <<>>]
        ELSE [raised |-> "", client |-> <<[api_key |-> key.val]>>]

----------------------------------------------------------------------------
(* Lines 10-19: completion = client.chat.completions.create(...) *)

\* the conversation with its two entries exchanged
messages_swapped ==
    << [role |-> "user",
        content |-> "Write a limerick about the Python programming language."],
       [role |-> "system", content |-> "You're a helpful assistant."] >>

messages ==
    << [role |-> "system", content |-> "You're a helpful assistant."],
       [role |-> "user",
        content |-> "Write a limerick about the Python programming language."] >>

\* a payload that carries the credential in the user message
create_kwargs_leak ==
    [model |-> "gpt-4o",
     messages |-> << messages[1], [role |-> "user", content |-> environ.val] >>]

\* the keyword arguments of the call: the request payload
create_kwargs == [model |-> "gpt-4o", messages |-> messages]

\* one HTTP request: the client's key authenticates it, the payload is its body
Request(api_key) == [api_key |-> api_key, body |-> create_kwargs]

\* the client re-sends a request that failed in a retryable way at most
\* this many times (the constructor of line 7 leaves max_retries at its default)
DEFAULT_MAX_RETRIES == 2

RetryableErrors == {"APIConnectionError", "RateLimitError"}

\* a client that re-sends whatever the answer was
should_retry_always(response) == TRUE

\* connection errors and 429/5xx answers are retried, 401/404 and
\* successful answers are not
should_retry(response) == response.status \in RetryableErrors

----------------------------------------------------------------------------
(* The service and the network *)

Choice(c) == [message |-> [role |-> "assistant", content |-> c]]
Choices == {Choice(c) : c \in Contents}
ChoiceLists == UNION {[1..n -> Choices] : n \in 0..MaxChoices}

Ok(choices) == [status |-> "ok", choices |-> choices]
Err(name) == [status |-> name, choices |-> <<>>]

\* every answer one request can get: a completion needs an accepted key
AcceptedKeyResponses ==
    {Err(e) : e \in RetryableErrors}
    \cup {Err("NotFoundError")} \cup {Ok(cs) : cs \in ChoiceLists}

RejectedKeyResponses ==
    {Err(e) : e \in RetryableErrors} \cup {Err("AuthenticationError")}

\* the answers of the attempts of one create call: every attempt but the
\* last was retried, and the last is final (not retryable, or retries used up)
AttemptLogsOver(all) ==
    LET retried == {r \in all : should_retry(r)}
    IN  UNION { { pre \o <<final>> :
                    pre \in [1..k -> retried],
                    final \in {r \in all :
                                 k < DEFAULT_MAX_RETRIES => ~should_retry(r)} }
                : k \in 0..DEFAULT_MAX_RETRIES }

AcceptedKeyLogs == AttemptLogsOver(AcceptedKeyResponses)
RejectedKeyLogs == AttemptLogsOver(RejectedKeyResponses)

AttemptLogs(api_key) ==
    IF api_key \in ValidKeys THEN AcceptedKeyLogs ELSE RejectedKeyLogs

----------------------------------------------------------------------------
(* Lines 21-22: response = completion.choices[0].message.content; print *)

\* the last element instead of the first
last_choice(choices) ==
    IF Len(choices) = 0
    THEN [raised |-> "IndexError", content |-> None]
    ELSE [raised |-> "", content |-> choices[Len(choices)].message.content]

\* completion.choices[0].message.content: IndexError on an empty list
first_choice(choices) ==
    IF Len(choices) = 0
    THEN [raised |-> "IndexError", content |-> None]
    ELSE [raised |-> "", content |-> choices[1].message.content]

\* str(x): a str is itself, None is the text None
py_str(x) == IF x.isNone THEN <<"N", "o", "n", "e">> ELSE x.val

\* print with end=""
py_print_no_end(x) == py_str(x)

\* print(x): str(x), then a newline
py_print(x) == py_str(x) \o <<"\n">>

\* a placeholder line is printed when there is no choice to print
access_and_print_fallback(choices) ==
    LET got == first_choice(choices)
    IN  IF got.raised # ""
        THEN [raised |-> got.raised, out |-> <<"\n">>]
        ELSE [raised |-> "", out |-> py_print(got.content)]

\* lines 21-22 on a returned completion
access_and_print(choices) ==
    LET got == first_choice(choices)
    IN  IF got.raised # ""
        THEN [raised |-> got.raised, out |-> <<>>]
        ELSE [raised |-> "", out |-> py_print(got.content)]

\* an interpreter that swallows the error
exit_code_swallow(raised) == 0

\* the interpreter's exit status: 1 after an unhandled exception, else 0
exit_code(raised) == IF raised = "" THEN 0 ELSE 1

\* the run starts over after an error
next_pc_restart(raised) == IF raised = "" THEN "success" ELSE "start"

\* where the run ends
next_pc(raised) == IF raised = "" THEN "success" ELSE "failure"

----------------------------------------------------------------------------
(* The run *)

Init ==
    /\ environ \in Environs
    /\ pc = "start"
    /\ client = <<>>
    /\ calls = 0
    /\ requests = <<>>
    /\ responses = <<>>
    /\ stdout = <<>>
    /\ error = ""
    /\ exit_status = <<>>

\* lines 7-19 up to the point where the create call blocks on the network:
\* the client is built, or the constructor raises and the process dies
Invoke ==
    /\ pc = "start"
    /\ LET built == OpenAI(os_getenv(environ))
       IN  IF built.raised # ""
           THEN /\ pc' = next_pc(built.raised)
                /\ error' = built.raised
                /\ exit_status' = <<exit_code(built.raised)>>
                /\ UNCHANGED <<client, calls, requests>>
           ELSE /\ client' = built.client
                /\ calls' = calls + 1
                /\ requests' = Append(requests, Request(built.client[1].api_key))
                /\ pc' = "pending"
                /\ UNCHANGED <<error, exit_status>>
    /\ UNCHANGED <<environ, responses, stdout>>

\* the create call comes back (after the client's re-sends, each with the
\* same request), then lines 21-22 run and the process exits
Return ==
    /\ pc = "pending"
    /\ \E log \in AttemptLogs(client[1].api_key) :
         LET final == Last(log)
             done == IF final.status # "ok"
                     THEN [raised |-> final.status, out |-> <<>>]
                     ELSE access_and_print(final.choices)
         IN  /\ responses' = responses \o log
             /\ requests' = requests \o
                   [i \in 1..(Len(log) - 1) |-> Request(client[1].api_key)]
             /\ stdout' = stdout \o done.out
             /\ error' = done.raised
             /\ exit_status' = <<exit_code(done.raised)>>
             /\ pc' = next_pc(done.raised)
    /\ UNCHANGED <<environ, client, calls>>

Next == Invoke \/ Return

Spec == Init /\ [][Next]_vars

\* the blocking call returns or raises (the transport has a timeout)
FairSpec == Spec /\ WF_vars(Next)

----------------------------------------------------------------------------
(* Properties *)

Terminal == {"success", "failure"}

\* the answer the create call ended with (defined once it has come back)
Answer == Last(responses)

Returned == responses # <<>>

\* C1: every request sent to the chat-completion endpoint carries exactly
\* two messages, the system instruction first and the user prompt second,
\* with the fixed literal contents, whatever the credential and whatever
\* the service answered.
C1_TwoFixedMessages ==
    \A i \in DOMAIN requests :
        LET msgs == requests[i].body.messages
        IN  /\ Len(msgs) = 2
            /\ msgs[1] = [role |-> "system",
                          content |-> "You're a helpful assistant."]
            /\ msgs[2] = [role |-> "user",
                          content |-> "Write a limerick about the Python programming language."]

\* a re-sent request of a run that failed with a rejected credential
C1_Witness ==
    /\ Len(requests) = 3
    /\ error = "AuthenticationError"

\* C2: a run that ended in failure (no credential, network error, rejected
\* credential, empty choices) has written nothing to standard output.
C2_NoOutputOnFailure ==
    (pc = "failure" \/ error # "") => stdout = <<>>

\* a completion with no choice came back and the access of line 21 raised
C2_Witness ==
    /\ pc = "failure"
    /\ error = "IndexError"
    /\ Returned /\ Answer.status = "ok"

\* C3: when a completion with at least one choice comes back, the run
\* succeeds and standard output is what print writes for the content of
\* the first choice, whatever the number and contents of further choices.
C3_OnlyFirstChoice ==
    (Returned /\ Answer.status = "ok" /\ Len(Answer.choices) >= 1)
        => /\ pc = "success"
           /\ error = ""
           /\ stdout = py_print(Answer.choices[1].message.content)

\* two choices with different contents came back
C3_Witness ==
    /\ pc = "success"
    /\ Len(Answer.choices) = 2
    /\ Answer.choices[2].message.content # Answer.choices[1].message.content
    /\ Answer.choices[2].message.content = Some(<<"a">>)

\* C4 (as stated): on success standard output is the first choice's content
\* exactly as the service returned it, followed by one newline, for every
\* content value the service can return.
C4_VerbatimThenNewline ==
    pc = "success"
        => /\ stdout # <<>>
           /\ Last(stdout) = "\n"
           /\ Some(Front(stdout)) = Answer.choices[1].message.content

\* C5: with the credential variable absent the run fails at once: it is
\* never in the call, no create call was made and no request was sent.
C5_AbsentCredentialNoRequest ==
    environ.isNone
        => /\ pc \in {"start", "failure"}
           /\ calls = 0
           /\ requests = <<>>
           /\ responses = <<>>
           /\ (pc = "failure" => error # "" /\ exit_status # <<>>)

C5_Witness ==
    /\ environ.isNone
    /\ pc = "failure"
    /\ error = "OpenAIError"

C7_ExitStatus ==
    /\ (pc \in Terminal <=> exit_status # <<>>)
    /\ (pc \in Terminal =>
          /\ (exit_status = <<0>> <=> stdout # <<>>)
          /\ (exit_status = <<0>> <=> pc = "success")
          /\ (error # "" <=> exit_status # <<0>>))

\* the service rejected the credential and the process exited with 1
C7_Witness ==
    /\ error = "AuthenticationError"
    /\ exit_status = <<1>>

ValidCredentialAndCompletion ==
    /\ pc \in Terminal
    /\ ~environ.isNone /\ environ.val \in ValidKeys
    /\ Returned /\ Answer.status = "ok"

\* C8 (as stated): with a valid credential and a request that returns a
\* completion, something is written to standard output.
C8_NonEmptyOutput ==
    ValidCredentialAndCompletion => stdout # <<>>

\* C8 (amended): with a valid credential and a request that returns a
\* completion with at least one choice, standard output is not empty: it
\* ends with the newline print adds, and the text before that newline is
\* not empty exactly when the first choice's content is not the empty string.
C8_NonEmptyOutputGivenChoice ==
    (ValidCredentialAndCompletion /\ Len(Answer.choices) >= 1)
        => /\ stdout # <<>>
           /\ Last(stdout) = "\n"
           /\ (Front(stdout) # <<>>
                 <=> Answer.choices[1].message.content # Some(<<>>))

\* the first choice's content is the empty string
C8_Witness ==
    /\ ValidCredentialAndCompletion
    /\ Len(Answer.choices) >= 1
    /\ Answer.choices[1].message.content = Some(<<>>)

\* C9: from "request pending" the run moves in one step to a terminal
\* state, takes no step after that, always reaches a terminal state, and
\* success and failure exclude each other.
C9_PendingThenTerminal ==
    /\ [][pc = "pending" => (pc' \in Terminal)]_vars
    /\ [][(pc \in Terminal) => (UNCHANGED vars)]_vars
    /\ [][(pc' \in {"pending"} \cup Terminal)]_vars
    /\ <>(pc \in Terminal)
    /\ [](pc = "success" => error = "" /\ exit_status = <<0>>)
    /\ [](pc = "failure" => error # "" /\ exit_status = <<1>>)

\* a run that went through the call and failed in it
C9_Witness ==
    /\ pc = "failure"
    /\ calls = 1
    /\ Returned

\* C10: the payload of every request is the same whatever the credential:
\* model "gpt-4o", the two fixed messages and no other parameter; the
\* credential is neither the model identifier nor a message content.
C10_PayloadIndependentOfCredential ==
    \A i \in DOMAIN requests :
        /\ requests[i].body =
              [model |-> "gpt-4o",
               messages |->
                 << [role |-> "system", content |-> "You're a helpful assistant."],
                    [role |-> "user",
                     content |-> "Write a limerick about the Python programming language."] >>]
        /\ DOMAIN requests[i].body = {"model", "messages"}
        /\ requests[i].api_key = environ.val
        /\ requests[i].body.model # environ.val
        /\ \A m \in DOMAIN requests[i].body.messages :
               requests[i].body.messages[m].content # environ.val

\* a request sent with a non-empty credential
C10_Witness ==
    /\ requests # <<>>
    /\ requests[1].api_key = "sk-valid"

====
